---------------------------- MODULE Spec2Model ----------------------------
(***************************************************************************)
(* Actual-Budget-Normalizer: the row batch processor (JobRunner.run_job),  *)
(* the normalization agent's use of Category Memory (TransactionAgent) and *)
(* the HTTP handlers that create and read jobs.                            *)
(*                                                                         *)
(* Strings are tuples of one-character strings, so that case folding,      *)
(* substring tests and SQL LIKE patterns are computed, not assumed.        *)
(***************************************************************************)
EXTENDS Integers, Sequences, FiniteSets, TLC

(***************************************************************************)
(* Bounds of the model.                                                    *)
(***************************************************************************)
\* Jobs that can be uploaded in one behaviour.
MaxJobs == 2
\* Rows over all uploaded inputs of one behaviour.
MaxRows == 2
\* Calls made on Category Memory in the sequential memory specification.
MaxCalls == 3
\* Rows of the input in the pool specification.
PoolRows == 7

(***************************************************************************)
(* Program constants.                                                      *)
(***************************************************************************)
\* ThreadPoolExecutor(max_workers=6)
MAX_WORKERS == 6

(***************************************************************************)
(* Strings.                                                                *)
(***************************************************************************)
EmptyStr == << >>

\* str.upper() on one character ("_" and digits are left alone).
UpperChar(c) ==
    CASE c = "a" -> "A"
      [] c = "b" -> "B"
      [] c = "e" -> "E"
      [] c = "f" -> "F"
      [] OTHER -> c

\* lower() as SQL applies it on both sides of ILIKE, and str.lower().
LowerChar(c) ==
    CASE c = "A" -> "a"
      [] c = "B" -> "b"
      [] c = "C" -> "c"
      [] c = "S" -> "s"
      [] c = "V" -> "v"
      [] c = "F" -> "f"
      [] c = "G" -> "g"
      [] OTHER -> c

Upper(s) == [k \in 1..Len(s) |-> UpperChar(s[k])]

Lower(s) == [k \in 1..Len(s) |-> LowerChar(s[k])]

\* Plain substring test: sub occurs in s.
Contains(s, sub) ==
    \E k \in 0..(Len(s) - Len(sub)) : SubSeq(s, k + 1, k + Len(sub)) = sub

\* SQL LIKE: pat matches the whole of s; "%" stands for any run of
\* characters and "_" for any one character.
RECURSIVE Like(_, _)
Like(pat, s) ==
    IF pat = << >> THEN s = << >>
    ELSE IF Head(pat) = "%"
         THEN \E k \in 0..Len(s) : Like(Tail(pat), SubSeq(s, k + 1, Len(s)))
         ELSE /\ s # << >>
              /\ Head(pat) = "_" \/ Head(pat) = Head(s)
              /\ Like(Tail(pat), Tail(s))

\* column.ilike(pattern): lower(column) LIKE lower(pattern).
ILike(s, pat) == Like(Lower(pat), Lower(s))

(***************************************************************************)
(* Category Memory: the categories table and the agent's two accessors.    *)
(* A table is the sequence of its rows in storage order.                   *)
(***************************************************************************)
\* The result of a lookup that found no row (Python's None).
NoCategory == <<"None">>

\* Category(payee=..., category=...)
Category(payee, category) == [payee |-> payee, category |-> category]

\* session.query(Category).filter(Category.payee == payee).first() is a row
PayeeExists(db, payee) == \E k \in 1..Len(db) : db[k].payee = payee

\* The rows the ILIKE filter of lookup_category_in_db selects.
LookupMatches(db, payee) ==
    {k \in 1..Len(db) : ILike(db[k].payee, <<"%">> \o Upper(payee) \o <<"%">>)}

\* TransactionAgent.lookup_category_in_db
lookup_category_in_db(db, payee) ==
    LET hits == LookupMatches(db, payee)
    IN  IF hits = {} THEN NoCategory
        ELSE Upper(db[CHOOSE k \in hits : \A m \in hits : k <= m].category)

\* Python truthiness of lookup's result: None and "" are both false.
Found(dbCategory) == dbCategory # NoCategory /\ dbCategory # EmptyStr

\* An index on payee that is not unique: every INSERT is accepted.
InsertNeverViolates(db, payee) == FALSE

\* The unique index on categories.payee: what an INSERT of payee does.
InsertViolatesUnique(db, payee) == PayeeExists(db, payee)

\* add_category_to_db as an upsert: a stored payee gets the new category.
add_category_upsert(db, payee, category) ==
    IF PayeeExists(db, payee)
    THEN [k \in 1..Len(db) |-> IF db[k].payee = payee
                               THEN Category(payee, category) ELSE db[k]]
    ELSE Append(db, Category(payee, category))

\* TransactionAgent.add_category_to_db, called with no other writer running.
add_category_to_db(db, payee, category) ==
    IF PayeeExists(db, payee) THEN db
    ELSE Append(db, Category(payee, category))


(***************************************************************************)
(* Values of the model.                                                    *)
(***************************************************************************)
JobIds == 1..MaxJobs

\* A CSV cell of the payee column as pandas hands it over.
RawPayees == {<<"a">>}

Row(hasPayee, payee) == [hasPayee |-> hasPayee, payee |-> payee]

Rows == {Row(FALSE, EmptyStr)} \cup {Row(TRUE, p) : p \in RawPayees}

\* Row sequences of an uploaded file, up to n rows.
RowSeqs(n) == UNION {[1..k -> Rows] : k \in 0..n}

\* Transaction(**data).dict(), reduced to the fields the batch processor
\* reads; src is the input row the record normalizes.
Txn(src, category, payee) == [src |-> src, category |-> category, payee |-> payee]

NoTxn == Txn(0, EmptyStr, EmptyStr)

\* What the model and the extractor can make of a row: category and payee.
TxnOutcomes == {<<EmptyStr, EmptyStr>>, <<(<<"F">>), (<<"A">>)>>, <<(<<"G">>), (<<"A">>)>>}

\* Exception messages.
NoError == "NULL"
LlmError == "RuntimeError: Groq API call failed"
IntegrityError == "IntegrityError: UNIQUE constraint failed: categories.payee"
S3Error == "ClientError: s3"
ReadCsvError == "ValueError: Missing column provided to 'parse_dates': 'Data'"
JsonError == "JSONDecodeError"
DumpError == "OSError: json.dump"
DbError == "OperationalError: jobs"

\* A row of the jobs table (the paths are functions of the id).
JobRow(status, completedAt, error) ==
    [status |-> status, created_at |-> TRUE, completed_at |-> completedAt, error |-> error]

NoJob == [status |-> "absent", created_at |-> FALSE, completed_at |-> FALSE, error |-> NoError]

\* An UPDATE held by a session until its commit.
Update(status, completedAt, error) ==
    [status |-> status, completed_at |-> completedAt, error |-> error]

NoUpdate == Update("none", FALSE, NoError)

\* An object of the blob store.
NoBlob == [exists |-> FALSE, dataCol |-> FALSE, rows |-> << >>]

Blob(dataCol, rows) == [exists |-> TRUE, dataCol |-> dataCol, rows |-> rows]

\* A worker of the pool on one row.
Worker(pc, dbCat, txn, err) == [pc |-> pc, dbCat |-> dbCat, txn |-> txn, err |-> err]

Queued == Worker("queued", NoCategory, NoTxn, NoError)

\* An HTTP response: the status code and what the body carries.
Response(code, status, rows) == [code |-> code, status |-> status, rows |-> rows]

\* The two lists of a run.
Lists(c, p) == [cats |-> c, pays |-> p]

NoLists == Lists(<< >>, << >>)

\* No call made on Category Memory yet.
NoCall == [op |-> "none", payee |-> EmptyStr, category |-> EmptyStr,
           result |-> NoCategory, existed |-> FALSE]

(***************************************************************************)
(* The model's text and the response extractor                             *)
(* (TransactionAgent._extract_and_normalize_json, _parse_csv_fallback).    *)
(* A text is a sequence of lexical tokens: "{", "}", a line break, a run   *)
(* of other text, a well-formed list of JSON members, a comma-separated    *)
(* line.  Values inside a token are strings of characters.                 *)
(***************************************************************************)
\* Tokens a streamed response can hold.
MaxTokens == 6

\* Line 161: required_fields
RequiredFields == <<"date", "payee", "notes", "category", "amount">>

Keys == {RequiredFields[k] : k \in 1..Len(RequiredFields)}

\* A JSON value: t is "str", "num", "null", or "absent" for a missing key;
\* s is the string's characters or the number's literal.
Value(t, s) == [t |-> t, s |-> s]

Absent == Value("absent", EmptyStr)

NoMembers == [f \in Keys |-> Absent]

Token(kind, body, fields) == [kind |-> kind, body |-> body, fields |-> fields]

OpenBrace == Token("open", NoMembers, << >>)

CloseBrace == Token("close", NoMembers, << >>)

Junk == Token("junk", NoMembers, << >>)

NewLine == Token("nl", NoMembers, << >>)

\* "date": "1-2", "payee": "bé", "notes": null, "category": "f", "amount": "1.5"
FullMembers ==
    [f \in Keys |->
        CASE f = "date" -> Value("str", <<"1", "-", "2">>)
          [] f = "payee" -> Value("str", <<"b", "é">>)
          [] f = "notes" -> Value("null", EmptyStr)
          [] f = "category" -> Value("str", <<"f">>)
          [] f = "amount" -> Value("str", <<"1", ".", "5">>)]

\* The same members without "category".
MissingMembers == [FullMembers EXCEPT !["category"] = Absent]

\* 1-2,Ab,,f,-3
CsvLine == Token("csv", NoMembers,
                 <<(<<"1", "-", "2">>), (<<"A", "b">>), EmptyStr, (<<"f">>), (<<"-", "3">>)>>)

\* "payee": "-", the other members as above.
DashPayeeMembers == [FullMembers EXCEPT !["payee"] = Value("str", <<"-">>)]

\* "amount": NaN, the other members as above (json.loads reads NaN).
NanMembers == [FullMembers EXCEPT !["amount"] = Value("num", <<"N", "a", "N">>)]

\* "amount": "x", the other members as above.
BadAmountMembers == [FullMembers EXCEPT !["amount"] = Value("str", <<"x">>)]

\* 1-2,,,f,inf
InfLine == Token("csv", NoMembers,
                 <<(<<"1", "-", "2">>), EmptyStr, EmptyStr, (<<"f">>), (<<"i", "n", "f">>)>>)

\* Texts whose payee or amount is unusual.
FieldTokens == {OpenBrace, CloseBrace, InfLine,
                Token("members", DashPayeeMembers, << >>),
                Token("members", NanMembers, << >>),
                Token("members", BadAmountMembers, << >>)}

\* A chunk whose delta.content is None.
NoContent == Token("none", NoMembers, << >>)

\* Chunks of a stream that has chunks without content.
StreamTokens == {NoContent, OpenBrace, CloseBrace, NewLine,
                 Token("members", FullMembers, << >>)}

Tokens == {OpenBrace, CloseBrace, Junk, NewLine, CsvLine,
           Token("members", FullMembers, << >>),
           Token("members", MissingMembers, << >>)}

\* A Python float: kind is "finite", "nan", "inf" or "-inf"; a finite value
\* is held in tenths.
Float(kind, tenths) == [kind |-> kind, tenths |-> tenths]

\* Transaction(date=..., payee=..., notes=..., category=..., amount=...)
Transaction(date, payee, notes, category, amount) ==
    [date |-> date, payee |-> payee, notes |-> notes, category |-> category,
     amount |-> amount]

NoTransaction == Transaction(EmptyStr, EmptyStr, EmptyStr, EmptyStr, Float("finite", 0))

\* Exception messages of the agent.
StreamError == "RuntimeError: Groq streaming error"
MissingFieldError == "ValueError: Missing field in LLM JSON output"
AmountError == "ValueError: Could not convert 'amount' to float"
NoLinesError == "ValueError: No non-empty lines in LLM output."
FieldCountError == "ValueError: Expected 5 fields in CSV row"
FloatError == "ValueError: could not convert string to float"

\* transaction_agent.py:21
CSV_FIELD_COUNT == 5

Digits == <<"0", "1", "2", "3", "4", "5", "6", "7", "8", "9">>

IsDigit(c) == \E d \in 1..10 : Digits[d] = c

DigitVal(c) == (CHOOSE d \in 1..10 : Digits[d] = c) - 1

RECURSIVE Decimal(_)
Decimal(s) == IF s = << >> THEN 0 ELSE 10 * Decimal(SubSeq(s, 1, Len(s) - 1)) + DigitVal(s[Len(s)])

\* Literals float() reads as not-a-number and as infinity.
NanLiterals == {<<"n", "a", "n">>, <<"N", "a", "N">>}

InfLiterals == {<<"i", "n", "f">>, <<"I", "n", "f", "i", "n", "i", "t", "y">>}

\* float(s) for the literals nan, inf, -inf and [-]digits[.digit]: whether
\* it converts, and the value.
ParseFloat(s) ==
    LET neg == s # << >> /\ s[1] = "-"
        body == IF neg THEN Tail(s) ELSE s
        dots == {k \in 1..Len(body) : body[k] = "."}
        whole == IF dots = {} THEN body
                 ELSE SubSeq(body, 1, (CHOOSE k \in dots : TRUE) - 1)
        frac == IF dots = {} THEN << >>
                ELSE SubSeq(body, (CHOOSE k \in dots : TRUE) + 1, Len(body))
        ok == /\ Cardinality(dots) <= 1
              /\ Len(whole) + Len(frac) >= 1
              /\ Len(frac) <= 1
              /\ \A k \in 1..Len(whole) : IsDigit(whole[k])
              /\ \A k \in 1..Len(frac) : IsDigit(frac[k])
        tenths == IF ok THEN 10 * Decimal(whole) + Decimal(frac) ELSE 0
    IN  IF body \in NanLiterals THEN [ok |-> TRUE, value |-> Float("nan", 0)]
        ELSE IF body \in InfLiterals
        THEN [ok |-> TRUE, value |-> Float(IF neg THEN "-inf" ELSE "inf", 0)]
        ELSE [ok |-> ok, value |-> Float("finite", IF neg THEN 0 - tenths ELSE tenths)]

\* float(data["amount"]) of a JSON value: a string is parsed, a number is
\* taken, None raises.
FloatOf(v) ==
    IF v.t \in {"str", "num"} THEN ParseFloat(v.s)
    ELSE [ok |-> FALSE, value |-> Float("finite", 0)]

\* string.ascii_uppercase + string.digits + " "
KeptChars ==
    {"A", "B", "C", "D", "E", "F", "G", "H", "I", "J", "K", "L", "M", "N", "O",
     "P", "Q", "R", "S", "T", "U", "V", "W", "X", "Y", "Z", "0", "1", "2", "3",
     "4", "5", "6", "7", "8", "9", " "}

\* unicodedata.normalize("NFKD", c).encode("ASCII", "ignore").decode(): an
\* accented letter loses its accent, other non-ASCII characters are dropped.
AsciiFoldChar(c) == IF c = "é" THEN <<"e">> ELSE <<c>>

RECURSIVE AsciiFold(_)
AsciiFold(s) == IF s = << >> THEN << >> ELSE AsciiFoldChar(Head(s)) \o AsciiFold(Tail(s))

IsKept(c) == c \in KeptChars

\* Lines 176-179: fold to ASCII, upper-case, keep only A-Z, 0-9 and spaces.
Sanitize(s) == SelectSeq(Upper(AsciiFold(s)), IsKept)

\* Lines 168-169 and 173-174: None becomes "" for notes and category; any
\* other value that is not a string goes through str().
AsString(f, v) ==
    IF v.t = "null"
    THEN IF f \in {"notes", "category"} THEN EmptyStr ELSE <<"N", "o", "n", "e">>
    ELSE v.s

\* re.finditer(r"\{.*?\}", raw, re.DOTALL) from position pos on: each match
\* runs from the next "{" to the first "}" after it.
RECURSIVE Candidates(_, _)
Candidates(raw, pos) ==
    LET opens == {a \in pos..Len(raw) : raw[a].kind = "open"}
    IN  IF opens = {} THEN << >>
        ELSE LET a == CHOOSE x \in opens : \A y \in opens : x <= y
                 closes == {b \in (a + 1)..Len(raw) : raw[b].kind = "close"}
             IN  IF closes = {} THEN << >>
                 ELSE LET b == CHOOSE x \in closes : \A y \in closes : x <= y
                      IN  <<SubSeq(raw, a, b)>> \o Candidates(raw, b + 1)

\* What stands between the braces of a candidate, white space apart.
Inner(cand) == SelectSeq(SubSeq(cand, 2, Len(cand) - 1), LAMBDA t : t.kind # "nl")

\* json.loads(json_str) does not raise: the braces hold nothing or one
\* well-formed list of members.
Parses(cand) == Inner(cand) = << >> \/ (Len(Inner(cand)) = 1 /\ Inner(cand)[1].kind = "members")

\* json.loads(json_str)
Loads(cand) == IF Inner(cand) = << >> THEN NoMembers ELSE Inner(cand)[1].body

\* What the extractor hands back: a dict ("data"), None ("none") or an
\* exception ("raise"); tried counts the candidates given to json.loads.
Extracted(outcome, data, err, tried) ==
    [outcome |-> outcome, data |-> data, err |-> err, tried |-> tried]

\* The loop of the extractor stopping at the first candidate that does not
\* parse, as if the except clause returned None.
RECURSIVE ExtractStopsAtBadCandidate(_, _)
ExtractStopsAtBadCandidate(cands, k) ==
    IF k > Len(cands) THEN Extracted("none", NoTransaction, NoError, Len(cands))
    ELSE IF ~Parses(cands[k]) THEN Extracted("none", NoTransaction, NoError, k)
    ELSE LET data == Loads(cands[k])
         IN  IF \E f \in Keys : data[f].t = "absent"
             THEN Extracted("raise", NoTransaction, MissingFieldError, k)
             ELSE IF ~FloatOf(data["amount"]).ok
             THEN Extracted("raise", NoTransaction, AmountError, k)
             ELSE Extracted("data",
                     Transaction(Sanitize(AsString("date", data["date"])),
                                 Sanitize(AsString("payee", data["payee"])),
                                 Sanitize(AsString("notes", data["notes"])),
                                 Sanitize(AsString("category", data["category"])),
                                 FloatOf(data["amount"]).value),
                     NoError, k)

\* The loop of the extractor going on to the next candidate when a parsed
\* one lacks a key, as if line 166 were a continue.
RECURSIVE ExtractSkipsIncomplete(_, _)
ExtractSkipsIncomplete(cands, k) ==
    IF k > Len(cands) THEN Extracted("none", NoTransaction, NoError, Len(cands))
    ELSE IF ~Parses(cands[k]) THEN ExtractSkipsIncomplete(cands, k + 1)
    ELSE LET data == Loads(cands[k])
         IN  IF \E f \in Keys : data[f].t = "absent"
             THEN ExtractSkipsIncomplete(cands, k + 1)
             ELSE IF ~FloatOf(data["amount"]).ok
             THEN Extracted("raise", NoTransaction, AmountError, k)
             ELSE Extracted("data",
                     Transaction(Sanitize(AsString("date", data["date"])),
                                 Sanitize(AsString("payee", data["payee"])),
                                 Sanitize(AsString("notes", data["notes"])),
                                 Sanitize(AsString("category", data["category"])),
                                 FloatOf(data["amount"]).value),
                     NoError, k)

\* Lines 153-188: the loop of the extractor from candidate k on.
RECURSIVE ExtractFrom(_, _)
ExtractFrom(cands, k) ==
    IF k > Len(cands) THEN Extracted("none", NoTransaction, NoError, Len(cands))
    ELSE IF ~Parses(cands[k]) THEN ExtractFrom(cands, k + 1)
    ELSE LET data == Loads(cands[k])
         IN  IF \E f \in Keys : data[f].t = "absent"
             THEN Extracted("raise", NoTransaction, MissingFieldError, k)
             ELSE IF ~FloatOf(data["amount"]).ok
             THEN Extracted("raise", NoTransaction, AmountError, k)
             ELSE Extracted("data",
                     Transaction(Sanitize(AsString("date", data["date"])),
                                 Sanitize(AsString("payee", data["payee"])),
                                 Sanitize(AsString("notes", data["notes"])),
                                 Sanitize(AsString("category", data["category"])),
                                 FloatOf(data["amount"]).value),
                     NoError, k)

\* TransactionAgent._extract_and_normalize_json
extract_and_normalize_json(raw) == ExtractFrom(Candidates(raw, 1), 1)

\* The fields csv.reader makes of one token's text.
TokenFields(t) ==
    CASE t.kind = "csv" -> t.fields
      [] t.kind = "members" ->
            LET n == Cardinality({f \in Keys : t.body[f].t # "absent"})
            IN  [k \in 1..(IF n = 0 THEN 1 ELSE n) |-> <<"m">>]
      [] t.kind = "open" -> <<(<<"{">>)>>
      [] t.kind = "close" -> <<(<<"}">>)>>
      [] OTHER -> <<(<<"x">>)>>

\* The fields of a line: texts that follow each other without a comma
\* between them make one field.
RECURSIVE LineFields(_)
LineFields(line) ==
    IF line = << >> THEN << >>
    ELSE LET rest == LineFields(SubSeq(line, 1, Len(line) - 1))
             last == TokenFields(line[Len(line)])
         IN  IF rest = << >> THEN last
             ELSE SubSeq(rest, 1, Len(rest) - 1)
                     \o <<rest[Len(rest)] \o last[1]>> \o Tail(last)

\* Line 192-197: the last line of the text that is not empty.
LastLine(raw) ==
    LET ends == {k \in 1..Len(raw) : raw[k].kind # "nl"}
    IN  IF ends = {} THEN << >>
        ELSE LET e == CHOOSE x \in ends : \A y \in ends : y <= x
                 breaks == {k \in 1..e : raw[k].kind = "nl"}
                 b == IF breaks = {} THEN 0
                      ELSE CHOOSE x \in breaks : \A y \in breaks : y <= x
             IN  SubSeq(raw, b + 1, e)

\* The fallback reading the line in the order payee, date, notes, category,
\* amount.
parse_csv_fallback_swapped(raw) ==
    LET fields == LineFields(LastLine(raw))
    IN  IF LastLine(raw) = << >>
        THEN Extracted("raise", NoTransaction, NoLinesError, 0)
        ELSE IF Len(fields) # CSV_FIELD_COUNT
        THEN Extracted("raise", NoTransaction, FieldCountError, 0)
        ELSE IF ~ParseFloat(fields[5]).ok
        THEN Extracted("raise", NoTransaction, FloatError, 0)
        ELSE Extracted("data",
                Transaction(fields[2], fields[1], fields[3], fields[4],
                            ParseFloat(fields[5]).value),
                NoError, 0)

\* TransactionAgent._parse_csv_fallback
parse_csv_fallback(raw) ==
    LET fields == LineFields(LastLine(raw))
    IN  IF LastLine(raw) = << >>
        THEN Extracted("raise", NoTransaction, NoLinesError, 0)
        ELSE IF Len(fields) # CSV_FIELD_COUNT
        THEN Extracted("raise", NoTransaction, FieldCountError, 0)
        ELSE IF ~ParseFloat(fields[5]).ok
        THEN Extracted("raise", NoTransaction, FloatError, 0)
        ELSE Extracted("data",
                Transaction(fields[1], fields[2], fields[3], fields[4],
                            ParseFloat(fields[5]).value),
                NoError, 0)

\* An HTTP request and its response: the route, the job id of the path or
\* of the response, the uploaded file's name, the status code and the body.
Exchange(req, id, name, code, status, rows) ==
    [req |-> req, id |-> id, name |-> name, code |-> code, status |-> status,
     rows |-> rows]

NoExchange == Exchange("none", 0, EmptyStr, 0, "none", << >>)

\* A row of the input as run_job of main.py hands it to ai_parse_row: Data
\* is a Timestamp when read_csv parsed the column and the string of the file
\* when it could not; Valor is a number or the text of the file.
LegacyRow(data, valor) == [data |-> data, valor |-> valor]

LegacyRows == {LegacyRow(d, v) : d \in {"timestamp", "str"}, v \in {"number", "text"}}

\* The Transaction ai_parse_row returns: calls is the number of calls of the
\* model made for the row.
LegacyTxn(kind, calls, category, notes) ==
    [kind |-> kind, calls |-> calls, category |-> category, notes |-> notes]

\* run_job of main.py with ai_parse_row inlined: idx is the row at work,
\* created the attempts ai_parse_row made for it, last its last_exception.
Legacy(pc, rows, idx, created, last, results, status, err) ==
    [pc |-> pc, rows |-> rows, idx |-> idx, created |-> created, last |-> last,
     results |-> results, status |-> status, err |-> err]

LegacyIdle == Legacy("idle", << >>, 0, 0, "NULL", << >>, "pending", "NULL")

\* The locals of one call of _parse_transaction: created counts the calls of
\* chat.completions.create, fallback tells that _parse_csv_fallback ran,
\* chunks is the history of the chunks the stream has handed over.
Agent(pc, raw, created, txn, err, tried, fallback, chunks) ==
    [pc |-> pc, raw |-> raw, created |-> created, txn |-> txn, err |-> err,
     tried |-> tried, fallback |-> fallback, chunks |-> chunks]

AgentIdle == Agent("idle", << >>, 0, NoTransaction, NoError, 0, FALSE, << >>)

VARIABLES
    jobs,        \* the jobs table: job id -> row, NoJob when absent
    inputBlob,   \* blob store, key jobs/<id>.csv
    outputBlob,  \* blob store, key jobs/<id>_out.csv
    catsFile,    \* categories.json
    paysFile,    \* payees.json
    catDb,       \* the categories table (Category Memory)
    pc,          \* run_job(job): where its thread stands
    session,     \* run_job(job): the UPDATE its session has not committed
    exc,         \* run_job(job): the exception its handler caught or it raised
    cats,        \* run_job(job): the list cats
    pays,        \* run_job(job): the list pays
    results,     \* run_job(job): the list results (slots, None until set)
    workers,     \* run_job(job): the futures of process_row, by row index
    loaded,      \* history: the lists as run_job(job) loaded them
    lastCall,    \* the last direct call on Category Memory
    calls,       \* direct calls made on Category Memory
    agent,       \* one call of _parse_transaction: position and locals
    http,        \* the last HTTP request and the response it got
    legacy       \* run_job and ai_parse_row of main.py: position and locals

vars == <<jobs, inputBlob, outputBlob, catsFile, paysFile, catDb, pc, session,
          exc, cats, pays, results, workers, loaded, lastCall, calls, agent, http, legacy>>

storeVars == <<jobs, inputBlob, outputBlob, catsFile, paysFile>>

runVars == <<pc, session, exc, cats, pays, results, workers, loaded>>

Init ==
    /\ jobs = [j \in JobIds |-> NoJob]
    /\ inputBlob = [j \in JobIds |-> NoBlob]
    /\ outputBlob = [j \in JobIds |-> NoBlob]
    /\ catsFile = << >>
    /\ paysFile = << >>
    /\ catDb = << >>
    /\ pc = [j \in JobIds |-> "none"]
    /\ session = [j \in JobIds |-> NoUpdate]
    /\ exc = [j \in JobIds |-> NoError]
    /\ cats = [j \in JobIds |-> << >>]
    /\ pays = [j \in JobIds |-> << >>]
    /\ results = [j \in JobIds |-> << >>]
    /\ workers = [j \in JobIds |-> << >>]
    /\ loaded = [j \in JobIds |-> NoLists]
    /\ lastCall = NoCall
    /\ calls = 0
    /\ agent = AgentIdle
    /\ http = NoExchange
    /\ legacy = LegacyIdle

(***************************************************************************)
(* HTTP handlers (app/api/routes.py).                                      *)
(***************************************************************************)
\* Rows stored over all inputs.
RECURSIVE RowsIn(_)
RowsIn(S) ==
    IF S = {} THEN 0
    ELSE LET j == CHOOSE x \in S : TRUE
         IN  Len(inputBlob[j].rows) + RowsIn(S \ {j})

\* save_upload_file's uuid4(): an id no job and no blob has.
FreshIds == {j \in JobIds : jobs[j] = NoJob /\ ~inputBlob[j].exists}

\* POST /upload-csv with a file name that does not end in .csv: 400.
UploadRejected ==
    /\ UNCHANGED vars

\* The id save_upload_file gives the next upload.
NewJobId == CHOOSE x \in FreshIds : \A y \in FreshIds : x <= y

\* routes.py:66-77: the input is stored, the job row is inserted as pending
\* and run_job is added as a background task.
UploadStores(dataCol, rows) ==
    /\ FreshIds # {}
    /\ RowsIn(JobIds) + Len(rows) <= MaxRows
    /\ inputBlob' = [inputBlob EXCEPT ![NewJobId] = Blob(dataCol, rows)]
    /\ jobs' = [jobs EXCEPT ![NewJobId] = JobRow("pending", FALSE, NoError)]
    /\ pc' = [pc EXCEPT ![NewJobId] = "scheduled"]

\* POST /upload-csv with a .csv file.
UploadCsv(dataCol, rows) ==
    /\ UploadStores(dataCol, rows)
    /\ UNCHANGED <<outputBlob, catsFile, paysFile, catDb, session, exc, cats,
                   pays, results, workers, loaded, lastCall, calls, agent, http, legacy>>

\* POST /upload-csv, the first upload, with a .csv file of PoolRows rows
\* that have no payee column.
UploadBatch ==
    /\ FreshIds = JobIds
    /\ LET j == CHOOSE x \in FreshIds : \A y \in FreshIds : x <= y
       IN  /\ inputBlob' = [inputBlob EXCEPT
                               ![j] = Blob(TRUE, [i \in 1..PoolRows |-> Row(FALSE, EmptyStr)])]
           /\ jobs' = [jobs EXCEPT ![j] = JobRow("pending", FALSE, NoError)]
           /\ pc' = [pc EXCEPT ![j] = "scheduled"]
    /\ UNCHANGED <<outputBlob, catsFile, paysFile, catDb, session, exc, cats,
                   pays, results, workers, loaded, lastCall, calls, agent, http, legacy>>

\* GET /status/{job_id}: what the handler answers in the current state.
StatusResponse(j) ==
    IF jobs[j] = NoJob THEN Response(404, "none", << >>)
    ELSE Response(200, jobs[j].status, << >>)

GetStatus(j) ==
    /\ StatusResponse(j).code \in {200, 404}
    /\ UNCHANGED vars

\* GET /download/{job_id}: what the handler answers in the current state.
DownloadResponse(j) ==
    IF jobs[j] = NoJob \/ ~outputBlob[j].exists THEN Response(404, "none", << >>)
    ELSE Response(200, "none", outputBlob[j].rows)

Download(j) ==
    /\ DownloadResponse(j).code \in {200, 404}
    /\ UNCHANGED vars

(***************************************************************************)
(* JobRunner.run_job: the job's own thread.                                *)
(***************************************************************************)
\* UPDATE jobs SET ... WHERE id = job_id, as committed: only the columns
\* the statement names change, and only if the row exists.
ApplyUpdate(row, u) ==
    IF row = NoJob \/ u = NoUpdate THEN row
    ELSE [row EXCEPT
            !.status = u.status,
            !.completed_at = IF u.status \in {"completed", "error"}
                             THEN u.completed_at ELSE @,
            !.error = IF u.status = "error" THEN u.error ELSE @]

\* Lines 56-58: the job is marked in_progress and the update committed.
MarkInProgress(j) ==
    /\ pc[j] = "scheduled"
    /\ jobs' = [jobs EXCEPT ![j] = ApplyUpdate(@, Update("in_progress", FALSE, NoError))]
    /\ pc' = [pc EXCEPT ![j] = "get_file"]
    /\ UNCHANGED <<inputBlob, outputBlob, catsFile, paysFile, catDb, session,
                   exc, cats, pays, results, workers, loaded, lastCall, calls, agent, http, legacy>>

\* run_job is left, by return or by an exception: its locals are gone.
Leave(j) ==
    /\ cats' = [cats EXCEPT ![j] = << >>]
    /\ pays' = [pays EXCEPT ![j] = << >>]
    /\ results' = [results EXCEPT ![j] = << >>]
    /\ workers' = [workers EXCEPT ![j] = << >>]
    /\ loaded' = [loaded EXCEPT ![j] = NoLists]

\* An exception inside the inner try: control goes to the handler.
Caught(j, message) ==
    /\ exc' = [exc EXCEPT ![j] = message]
    /\ pc' = [pc EXCEPT ![j] = "handler"]

\* Lines 61-63: get_file and read_csv(parse_dates=["Data"]).
GetInput(j) ==
    /\ pc[j] = "get_file"
    /\ IF inputBlob[j].exists /\ inputBlob[j].dataCol
       THEN pc' = [pc EXCEPT ![j] = "load_sets"] /\ exc' = exc
       ELSE Caught(j, IF inputBlob[j].exists THEN ReadCsvError ELSE S3Error)
    /\ UNCHANGED <<storeVars, catDb, session, cats, pays, results, workers,
                   loaded, lastCall, calls, agent, http, legacy>>

\* Line 61: the blob store fails.
GetInputFails(j) ==
    /\ pc[j] = "get_file"
    /\ Caught(j, S3Error)
    /\ UNCHANGED <<storeVars, catDb, session, cats, pays, results, workers,
                   loaded, lastCall, calls, agent, http, legacy>>

\* Lines 64-69 and 90: both lists are loaded, results gets its slots and
\* every row is submitted to the pool.
LoadSets(j) ==
    /\ pc[j] = "load_sets"
    /\ cats' = [cats EXCEPT ![j] = catsFile]
    /\ pays' = [pays EXCEPT ![j] = paysFile]
    /\ results' = [results EXCEPT ![j] = [i \in 1..Len(inputBlob[j].rows) |-> NoTxn]]
    /\ workers' = [workers EXCEPT ![j] = [i \in 1..Len(inputBlob[j].rows) |-> Queued]]
    /\ loaded' = [loaded EXCEPT ![j] = Lists(catsFile, paysFile)]
    /\ pc' = [pc EXCEPT ![j] = "pool"]
    /\ UNCHANGED <<storeVars, catDb, session, exc, lastCall, calls, agent, http, legacy>>

\* Lines 66-67: json.load fails.
LoadSetsFails(j) ==
    /\ pc[j] = "load_sets"
    /\ Caught(j, JsonError)
    /\ UNCHANGED <<storeVars, catDb, session, cats, pays, results, workers,
                   loaded, lastCall, calls, agent, http, legacy>>

\* Results stored in completion order: the next free slot.
ResultSlotByCompletion(j, i) ==
    1 + Cardinality({k \in DOMAIN workers[j] : workers[j][k].pc = "collected"})

\* The slot a collected result is stored in (line 93: results[idx]).
ResultSlot(j, i) == i

\* Lines 91-93: as_completed hands over a future that returned.
Collect(j, i) ==
    /\ pc[j] = "pool"
    /\ workers[j][i].pc = "returned"
    /\ results' = [results EXCEPT ![j][ResultSlot(j, i)] = workers[j][i].txn]
    /\ workers' = [workers EXCEPT ![j][i] = Worker("collected", NoCategory, NoTxn, NoError)]
    /\ UNCHANGED <<storeVars, catDb, pc, session, exc, cats, pays, loaded,
                   lastCall, calls, agent, http, legacy>>

\* Line 92: future.result() re-raises the row's exception; the with block
\* is left and the executor shut down (wait=True).
CollectRaises(j, i) ==
    /\ pc[j] = "pool"
    /\ workers[j][i].pc = "failed"
    /\ exc' = [exc EXCEPT ![j] = workers[j][i].err]
    /\ pc' = [pc EXCEPT ![j] = "shutdown"]
    /\ UNCHANGED <<storeVars, catDb, session, cats, pays, results, workers,
                   loaded, lastCall, calls, agent, http, legacy>>

Finished(j) == {i \in DOMAIN workers[j] : workers[j][i].pc \in {"returned", "collected", "failed"}}

\* A shutdown that does not wait for the rows queued or running.
ShutdownDoneNoWait(j) ==
    /\ pc[j] = "shutdown"
    /\ pc' = [pc EXCEPT ![j] = "handler"]
    /\ UNCHANGED <<storeVars, catDb, session, exc, cats, pays, results,
                   workers, loaded, lastCall, calls, agent, http, legacy>>

\* The executor's shutdown returns once no row is queued or running.
ShutdownDone(j) ==
    /\ pc[j] = "shutdown"
    /\ Finished(j) = DOMAIN workers[j]
    /\ pc' = [pc EXCEPT ![j] = "handler"]
    /\ UNCHANGED <<storeVars, catDb, session, exc, cats, pays, results,
                   workers, loaded, lastCall, calls, agent, http, legacy>>

\* Every future was handed over: the with block ends.
PoolDone(j) ==
    /\ pc[j] = "pool"
    /\ \A i \in DOMAIN workers[j] : workers[j][i].pc = "collected"
    /\ pc' = [pc EXCEPT ![j] = "dump_cats"]
    /\ UNCHANGED <<storeVars, catDb, session, exc, cats, pays, results,
                   workers, loaded, lastCall, calls, agent, http, legacy>>

\* Line 95
DumpCats(j) ==
    /\ pc[j] = "dump_cats"
    /\ catsFile' = cats[j]
    /\ pc' = [pc EXCEPT ![j] = "dump_pays"]
    /\ UNCHANGED <<jobs, inputBlob, outputBlob, paysFile, catDb, session, exc,
                   cats, pays, results, workers, loaded, lastCall, calls, agent, http, legacy>>

\* Line 95: the file cannot be opened for writing.
DumpCatsFails(j) ==
    /\ pc[j] = "dump_cats"
    /\ Caught(j, DumpError)
    /\ UNCHANGED <<storeVars, catDb, session, cats, pays, results, workers,
                   loaded, lastCall, calls, agent, http, legacy>>

\* Line 97
DumpPays(j) ==
    /\ pc[j] = "dump_pays"
    /\ paysFile' = pays[j]
    /\ pc' = [pc EXCEPT ![j] = "save_file"]
    /\ UNCHANGED <<jobs, inputBlob, outputBlob, catsFile, catDb, session, exc,
                   cats, pays, results, workers, loaded, lastCall, calls, agent, http, legacy>>

\* Line 97: the file cannot be opened for writing.
DumpPaysFails(j) ==
    /\ pc[j] = "dump_pays"
    /\ Caught(j, DumpError)
    /\ UNCHANGED <<storeVars, catDb, session, cats, pays, results, workers,
                   loaded, lastCall, calls, agent, http, legacy>>

\* A run that goes on to the update without storing the table.
SaveOutputSkipped(j) ==
    /\ pc[j] = "save_file"
    /\ pc' = [pc EXCEPT ![j] = "mark_completed"]
    /\ UNCHANGED <<jobs, inputBlob, outputBlob, catsFile, paysFile, catDb, session,
                   exc, cats, pays, results, workers, loaded, lastCall, calls,
                   agent, http, legacy>>

\* Lines 99-100: the table of the results, in list order, is stored.
SaveOutput(j) ==
    /\ pc[j] = "save_file"
    /\ outputBlob' = [outputBlob EXCEPT ![j] = Blob(FALSE, results[j])]
    /\ pc' = [pc EXCEPT ![j] = "mark_completed"]
    /\ UNCHANGED <<jobs, inputBlob, catsFile, paysFile, catDb, session, exc,
                   cats, pays, results, workers, loaded, lastCall, calls, agent, http, legacy>>

\* Line 100: the blob store fails.
SaveOutputFails(j) ==
    /\ pc[j] = "save_file"
    /\ Caught(j, S3Error)
    /\ UNCHANGED <<storeVars, catDb, session, cats, pays, results, workers,
                   loaded, lastCall, calls, agent, http, legacy>>

\* The UPDATE to completed without completed_at among its values.
ExecCompletedWithoutTime(j) ==
    /\ pc[j] = "mark_completed"
    /\ session' = [session EXCEPT ![j] = Update("completed", FALSE, NoError)]
    /\ pc' = [pc EXCEPT ![j] = "commit"]
    /\ UNCHANGED <<storeVars, catDb, exc, cats, pays, results, workers, loaded,
                   lastCall, calls, agent, http, legacy>>

\* Lines 102-107: the UPDATE to completed is executed, not yet committed.
ExecCompleted(j) ==
    /\ pc[j] = "mark_completed"
    /\ session' = [session EXCEPT ![j] = Update("completed", TRUE, NoError)]
    /\ pc' = [pc EXCEPT ![j] = "commit"]
    /\ UNCHANGED <<storeVars, catDb, exc, cats, pays, results, workers, loaded,
                   lastCall, calls, agent, http, legacy>>

\* A handler that marks the job completed whatever happened.
HandlerMarksCompleted(j) ==
    /\ pc[j] = "handler"
    /\ session' = [session EXCEPT ![j] = Update("completed", TRUE, NoError)]
    /\ pc' = [pc EXCEPT ![j] = "commit"]
    /\ UNCHANGED <<storeVars, catDb, exc, cats, pays, results, workers, loaded,
                   lastCall, calls, agent, http, legacy>>

\* Lines 108-115: the handler executes the UPDATE to error with str(exc).
Handler(j) ==
    /\ pc[j] = "handler"
    /\ session' = [session EXCEPT ![j] = Update("error", TRUE, exc[j])]
    /\ pc' = [pc EXCEPT ![j] = "commit"]
    /\ UNCHANGED <<storeVars, catDb, exc, cats, pays, results, workers, loaded,
                   lastCall, calls, agent, http, legacy>>

\* A commit of an UPDATE that lost its WHERE clause: every row is updated.
CommitEveryRow(j) ==
    /\ pc[j] = "commit"
    /\ jobs' = [k \in JobIds |-> ApplyUpdate(jobs[k], session[j])]
    /\ session' = [session EXCEPT ![j] = NoUpdate]
    /\ pc' = [pc EXCEPT ![j] = "done"]
    /\ Leave(j)
    /\ UNCHANGED <<inputBlob, outputBlob, catsFile, paysFile, catDb, exc,
                   lastCall, calls, agent, http, legacy>>

\* Lines 116-118: commit, close, return.
Commit(j) ==
    /\ pc[j] = "commit"
    /\ jobs' = [jobs EXCEPT ![j] = ApplyUpdate(@, session[j])]
    /\ session' = [session EXCEPT ![j] = NoUpdate]
    /\ pc' = [pc EXCEPT ![j] = "done"]
    /\ Leave(j)
    /\ UNCHANGED <<inputBlob, outputBlob, catsFile, paysFile, catDb, exc,
                   lastCall, calls, agent, http, legacy>>

(***************************************************************************)
(* process_row on a pool thread (job_runner.py:71-87), with the agent's    *)
(* parse_transaction (transaction_agent.py:55-76) inlined.  A step is one  *)
(* access to state other threads share, or one call of the model.          *)
(***************************************************************************)
\* str(row.get("payee", "")).upper()
PayeeHint(row) == IF row.hasPayee THEN Upper(row.payee) ELSE EmptyStr

HintOf(j, i) == PayeeHint(inputBlob[j].rows[i])

Running(j) == {i \in DOMAIN workers[j] : workers[j][i].pc \notin {"queued", "returned", "collected", "failed"}}

SetWorker(j, i, w) == workers' = [workers EXCEPT ![j][i] = w]

\* A pool that starts a thread for every queued work item.
StartRowNoLimit(j, i) ==
    /\ pc[j] \in {"pool", "shutdown"}
    /\ workers[j][i].pc = "queued"
    /\ \A k \in 1..(i - 1) : workers[j][k].pc # "queued"
    /\ SetWorker(j, i, [workers[j][i] EXCEPT
                          !.pc = "llm",
                          !.dbCat = lookup_category_in_db(catDb, HintOf(j, i))])
    /\ UNCHANGED <<storeVars, catDb, pc, session, exc, cats, pays, results,
                   loaded, lastCall, calls, agent, http, legacy>>

\* A pool thread takes the oldest queued work item (the pool has
\* MAX_WORKERS threads; a shut-down executor still runs what is queued) and
\* runs process_row up to the agent's lookup, transaction_agent.py:64-65.
StartRow(j, i) ==
    /\ pc[j] \in {"pool", "shutdown"}
    /\ workers[j][i].pc = "queued"
    /\ \A k \in 1..(i - 1) : workers[j][k].pc # "queued"
    /\ Cardinality(Running(j)) < MAX_WORKERS
    /\ SetWorker(j, i, [workers[j][i] EXCEPT
                          !.pc = "llm",
                          !.dbCat = lookup_category_in_db(catDb, HintOf(j, i))])
    /\ UNCHANGED <<storeVars, catDb, pc, session, exc, cats, pays, results,
                   loaded, lastCall, calls, agent, http, legacy>>

\* record called for every extracted category, memory hit or not.
CallsRecordWhenCategory(dbCat, txn) == txn.category # EmptyStr

\* transaction_agent.py:73: record is called after a miss with a category.
CallsRecord(dbCat, txn) == ~Found(dbCat) /\ txn.category # EmptyStr

\* transaction_agent.py:71: the model answers and the extractor returns.
LlmReturns(j, i, category, payee) ==
    /\ workers[j][i].pc = "llm"
    /\ LET txn == Txn(i, category, payee)
       IN  SetWorker(j, i, [workers[j][i] EXCEPT
                              !.txn = txn,
                              !.dbCat = NoCategory,
                              !.pc = IF CallsRecord(workers[j][i].dbCat, txn)
                                     THEN "add_check" ELSE "cats_check"])
    /\ UNCHANGED <<storeVars, catDb, pc, session, exc, cats, pays, results,
                   loaded, lastCall, calls, agent, http, legacy>>

\* A row that records a category for its payee before its failure is raised.
LlmRaisesAfterRecord(j, i) ==
    /\ workers[j][i].pc = "llm"
    /\ SetWorker(j, i, Worker("failed", NoCategory, NoTxn, LlmError))
    /\ catDb' = add_category_to_db(catDb, HintOf(j, i), <<"F">>)
    /\ UNCHANGED <<storeVars, pc, session, exc, cats, pays, results,
                   loaded, lastCall, calls, agent, http, legacy>>

\* transaction_agent.py:71: the model call, the stream or the extractor raises.
LlmRaises(j, i) ==
    /\ workers[j][i].pc = "llm"
    /\ SetWorker(j, i, Worker("failed", NoCategory, NoTxn, LlmError))
    /\ UNCHANGED <<storeVars, catDb, pc, session, exc, cats, pays, results,
                   loaded, lastCall, calls, agent, http, legacy>>

\* transaction_agent.py:82-83: the existence query of add_category_to_db.
AddCheck(j, i) ==
    /\ workers[j][i].pc = "add_check"
    /\ SetWorker(j, i, [workers[j][i] EXCEPT
                          !.pc = IF PayeeExists(catDb, HintOf(j, i))
                                 THEN "cats_check" ELSE "add_insert"])
    /\ UNCHANGED <<storeVars, catDb, pc, session, exc, cats, pays, results,
                   loaded, lastCall, calls, agent, http, legacy>>

\* transaction_agent.py:84-86: INSERT and commit; the unique index on payee
\* rejects a second row for the payee and commit raises.
AddInsert(j, i) ==
    /\ workers[j][i].pc = "add_insert"
    /\ IF InsertViolatesUnique(catDb, HintOf(j, i))
       THEN /\ SetWorker(j, i, Worker("failed", NoCategory, NoTxn, IntegrityError))
            /\ catDb' = catDb
       ELSE /\ SetWorker(j, i, [workers[j][i] EXCEPT !.pc = "cats_check"])
            /\ catDb' = Append(catDb, Category(HintOf(j, i), workers[j][i].txn.category))
    /\ UNCHANGED <<storeVars, pc, session, exc, cats, pays, results, loaded,
                   lastCall, calls, agent, http, legacy>>

InList(x, list) == \E k \in 1..Len(list) : list[k] = x

\* job_runner.py:83: txn.category and txn.category not in cats
CatsCheck(j, i) ==
    /\ workers[j][i].pc = "cats_check"
    /\ LET c == workers[j][i].txn.category
       IN  SetWorker(j, i, [workers[j][i] EXCEPT
                              !.pc = IF c # EmptyStr /\ ~InList(c, cats[j])
                                     THEN "cats_append" ELSE "pays_check"])
    /\ UNCHANGED <<storeVars, catDb, pc, session, exc, cats, pays, results,
                   loaded, lastCall, calls, agent, http, legacy>>

\* job_runner.py:84: cats.append(txn.category)
CatsAppend(j, i) ==
    /\ workers[j][i].pc = "cats_append"
    /\ cats' = [cats EXCEPT ![j] = Append(@, workers[j][i].txn.category)]
    /\ SetWorker(j, i, [workers[j][i] EXCEPT !.pc = "pays_check"])
    /\ UNCHANGED <<storeVars, catDb, pc, session, exc, pays, results, loaded,
                   lastCall, calls, agent, http, legacy>>

\* job_runner.py:85: txn.payee and txn.payee not in pays
PaysCheck(j, i) ==
    /\ workers[j][i].pc = "pays_check"
    /\ LET p == workers[j][i].txn.payee
       IN  SetWorker(j, i, [workers[j][i] EXCEPT
                              !.pc = IF p # EmptyStr /\ ~InList(p, pays[j])
                                     THEN "pays_append" ELSE "returned"])
    /\ UNCHANGED <<storeVars, catDb, pc, session, exc, cats, pays, results,
                   loaded, lastCall, calls, agent, http, legacy>>

\* job_runner.py:86-87: pays.append(txn.payee); return idx, txn.dict()
PaysAppend(j, i) ==
    /\ workers[j][i].pc = "pays_append"
    /\ pays' = [pays EXCEPT ![j] = Append(@, workers[j][i].txn.payee)]
    /\ SetWorker(j, i, [workers[j][i] EXCEPT !.pc = "returned"])
    /\ UNCHANGED <<storeVars, catDb, pc, session, exc, cats, results, loaded,
                   lastCall, calls, agent, http, legacy>>

(***************************************************************************)
(* The jobs table refusing a statement (the database is down or locked).   *)
(***************************************************************************)
\* Lines 56-58 raise: outside the inner try, the exception leaves run_job.
MarkInProgressFails(j) ==
    /\ pc[j] = "scheduled"
    /\ pc' = [pc EXCEPT ![j] = "raised"]
    /\ exc' = [exc EXCEPT ![j] = DbError]
    /\ Leave(j)
    /\ UNCHANGED <<storeVars, catDb, session, lastCall, calls, agent, http, legacy>>

\* Line 107 raises: inside the inner try.
ExecCompletedFails(j) ==
    /\ pc[j] = "mark_completed"
    /\ Caught(j, DbError)
    /\ UNCHANGED <<storeVars, catDb, session, cats, pays, results, workers,
                   loaded, lastCall, calls, agent, http, legacy>>

\* Line 115 raises inside the handler: the exception leaves run_job.
HandlerFails(j) ==
    /\ pc[j] = "handler"
    /\ pc' = [pc EXCEPT ![j] = "raised"]
    /\ exc' = [exc EXCEPT ![j] = DbError]
    /\ Leave(j)
    /\ UNCHANGED <<storeVars, catDb, session, lastCall, calls, agent, http, legacy>>

\* Line 116 raises: the update is rolled back when the session closes.
CommitFails(j) ==
    /\ pc[j] = "commit"
    /\ pc' = [pc EXCEPT ![j] = "raised"]
    /\ exc' = [exc EXCEPT ![j] = DbError]
    /\ session' = [session EXCEPT ![j] = NoUpdate]
    /\ Leave(j)
    /\ UNCHANGED <<storeVars, catDb, lastCall, calls, agent, http, legacy>>

(***************************************************************************)
(* Category Memory called directly, one call at a time.                    *)
(***************************************************************************)
\* Payees a caller can ask for.
MemQueries == {EmptyStr, <<"a">>, <<"b">>, <<"A", "b">>, <<"_">>}

\* Keys the agent records: parse_transaction upper-cases the payee first.
MemKeys == {Upper(q) : q \in MemQueries}

\* Categories the agent records: never the empty string.
MemCategories == {<<"F">>, <<"G">>, <<"f">>}

\* add_category_to_db(payee, category)
MemRecord(payee, category) ==
    /\ calls < MaxCalls
    /\ calls' = calls + 1
    /\ catDb' = add_category_to_db(catDb, payee, category)
    /\ lastCall' = [op |-> "record", payee |-> payee, category |-> category,
                    result |-> NoCategory, existed |-> PayeeExists(catDb, payee)]
    /\ UNCHANGED <<storeVars, runVars, agent, http, legacy>>

\* lookup_category_in_db(payee)
MemLookup(payee) ==
    /\ calls < MaxCalls
    /\ calls' = calls + 1
    /\ lastCall' = [op |-> "lookup", payee |-> payee, category |-> EmptyStr,
                    result |-> lookup_category_in_db(catDb, payee),
                    existed |-> FALSE]
    /\ UNCHANGED <<storeVars, runVars, catDb, agent, http, legacy>>

(***************************************************************************)
(* TransactionAgent._parse_transaction, one call on its own                *)
(* (transaction_agent.py:89-146).                                          *)
(***************************************************************************)
agentFrame == <<storeVars, runVars, catDb, lastCall, calls, http, legacy>>

\* Lines 113-121: chat.completions.create returns the stream.
CreateCompletion ==
    /\ agent.pc = "idle"
    /\ agent' = [agent EXCEPT !.pc = "streaming", !.created = @ + 1]
    /\ UNCHANGED agentFrame

\* A failed create answered by another attempt, up to three.
CreateFailsRetries ==
    /\ agent.pc = "idle"
    /\ agent' = [agent EXCEPT
                    !.created = @ + 1,
                    !.pc = IF agent.created + 1 < 3 THEN "idle" ELSE "raised",
                    !.err = IF agent.created + 1 < 3 THEN NoError ELSE LlmError]
    /\ UNCHANGED agentFrame

\* Lines 122-125: create raises; RuntimeError is raised from it.
CreateFails ==
    /\ agent.pc = "idle"
    /\ agent' = [agent EXCEPT !.pc = "raised", !.created = @ + 1, !.err = LlmError]
    /\ UNCHANGED agentFrame

\* Line 140: chunk.choices[0].delta.content or ""
ChunkText(t) == IF t.kind = "none" THEN << >> ELSE <<t>>

\* A collector that puts each chunk's text before what it has.
StreamChunkPrepends(t) ==
    /\ agent.pc = "streaming"
    /\ Len(agent.chunks) < MaxTokens
    /\ agent' = [agent EXCEPT !.raw = ChunkText(t) \o @, !.chunks = Append(@, t)]
    /\ UNCHANGED agentFrame

\* Lines 139-141: the stream hands over a chunk, its text is appended to
\* raw_output.
StreamChunk(t) ==
    /\ agent.pc = "streaming"
    /\ Len(agent.chunks) < MaxTokens
    /\ agent' = [agent EXCEPT !.raw = @ \o ChunkText(t), !.chunks = Append(@, t)]
    /\ UNCHANGED agentFrame

\* Lines 142-145: the stream breaks; RuntimeError is raised from it.
StreamFails ==
    /\ agent.pc = "streaming"
    /\ agent' = [agent EXCEPT !.pc = "raised", !.err = StreamError, !.raw = << >>]
    /\ UNCHANGED agentFrame

\* Line 146: the stream is exhausted.
StreamEnds ==
    /\ agent.pc = "streaming"
    /\ agent' = [agent EXCEPT !.pc = "extract"]
    /\ UNCHANGED agentFrame

\* Lines 128-131: the extractor runs on raw_output; its dict becomes the
\* Transaction, its exception leaves the call, None leads to the fallback.
Extract ==
    /\ agent.pc = "extract"
    /\ LET r == extract_and_normalize_json(agent.raw)
       IN  agent' = [agent EXCEPT
                       !.pc = CASE r.outcome = "data" -> "returned"
                                [] r.outcome = "raise" -> "raised"
                                [] OTHER -> "fallback",
                       !.txn = r.data,
                       !.err = r.err,
                       !.tried = r.tried]
    /\ UNCHANGED agentFrame

\* Line 133: return self._parse_csv_fallback(raw_output)
Fallback ==
    /\ agent.pc = "fallback"
    /\ LET r == parse_csv_fallback(agent.raw)
       IN  agent' = [agent EXCEPT
                       !.pc = IF r.outcome = "data" THEN "returned" ELSE "raised",
                       !.txn = r.data,
                       !.err = r.err,
                       !.fallback = TRUE]
    /\ UNCHANGED agentFrame

(***************************************************************************)
(* The HTTP handlers with the exchange kept (routes.py:55-172).            *)
(***************************************************************************)
\* Names of uploaded files.
Filenames == {<<"A", ".", "C", "S", "V">>, <<"c", "s", "v", ".", "a">>}

\* str.endswith
EndsWith(s, suffix) ==
    Len(s) >= Len(suffix) /\ SubSeq(s, Len(s) - Len(suffix) + 1, Len(s)) = suffix

\* The test applied to the name as it was sent.
AcceptsFilenameCaseSensitive(name) == EndsWith(name, <<".", "c", "s", "v">>)

\* routes.py:62: file.filename.lower().endswith(".csv")
AcceptsFilename(name) == EndsWith(Lower(name), <<".", "c", "s", "v">>)

\* Everything but the exchange.
exceptHttp == <<storeVars, runVars, catDb, lastCall, calls, agent, legacy>>

\* POST /upload-csv: 400 for a name that is not a .csv name, else the
\* upload is stored and answered with the job id.
UploadRequest(name, dataCol, rows) ==
    /\ IF AcceptsFilename(name)
       THEN /\ UploadStores(dataCol, rows)
            /\ http' = Exchange("upload", NewJobId, name, 202, "none", << >>)
       ELSE /\ http' = Exchange("upload", 0, name, 400, "none", << >>)
            /\ UNCHANGED <<inputBlob, jobs, pc>>
    /\ UNCHANGED <<outputBlob, catsFile, paysFile, catDb, session, exc, cats,
                   pays, results, workers, loaded, lastCall, calls, agent, legacy>>

\* GET /status/{job_id}
StatusRequest(j) ==
    /\ http' = Exchange("status", j, EmptyStr, StatusResponse(j).code,
                        StatusResponse(j).status, << >>)
    /\ UNCHANGED exceptHttp

\* GET /download/{job_id}
DownloadRequest(j) ==
    /\ http' = Exchange("download", j, EmptyStr, DownloadResponse(j).code,
                        "none", DownloadResponse(j).rows)
    /\ UNCHANGED exceptHttp

\* main.py:279-299: the download handler of the single-file application:
\* 404 without a job row, 400 unless the row is completed, 404 when the
\* output file is missing.
DownloadResponseMain(j) ==
    IF jobs[j] = NoJob THEN Response(404, "none", << >>)
    ELSE IF jobs[j].status # "completed" THEN Response(400, "none", << >>)
    ELSE IF ~outputBlob[j].exists THEN Response(404, "none", << >>)
    ELSE Response(200, "none", outputBlob[j].rows)

\* GET /download/{job_id} of main.py
DownloadRequestMain(j) ==
    /\ http' = Exchange("download", j, EmptyStr, DownloadResponseMain(j).code,
                        "none", DownloadResponseMain(j).rows)
    /\ UNCHANGED exceptHttp

\* A health check that reports the jobs in error.
HealthResponseByJobs ==
    IF \E j \in JobIds : jobs[j].status = "error"
    THEN Response(503, "error", << >>) ELSE Response(200, "ok", << >>)

\* routes.py:170-172: return {"status": "ok"}
HealthResponse == Response(200, "ok", << >>)

\* GET /health
HealthRequest ==
    /\ http' = Exchange("health", 0, EmptyStr, HealthResponse.code,
                        HealthResponse.status, << >>)
    /\ UNCHANGED exceptHttp

(***************************************************************************)
(* The historical variant: run_job and ai_parse_row of main.py             *)
(* (main.py:129-236), one job of rows handled one after the other.         *)
(***************************************************************************)
\* main.py:135: max_retries: int = 3
max_retries == 3

LegacyMaxRows == 2

\* What makes an attempt fail: create or the stream raises, the output is
\* empty, extract_json or validate_transaction_data or Transaction raises.
AttemptErrors == {"Groq API call failed", "Empty AI response", "Failed to decode JSON"}

exceptLegacy == <<storeVars, runVars, catDb, lastCall, calls, agent, http>>

\* main.py:198-214: the job is marked in_progress and the rows are read.
LegacyRunJob(rows) ==
    /\ legacy.pc = "idle"
    /\ legacy' = Legacy("attempt", rows, 1, 0, "NULL", << >>, "in_progress", "NULL")
    /\ UNCHANGED exceptLegacy

\* main.py:214-220: the row's Transaction is appended to results and the
\* loop goes to the next row, or ends.
LegacyAppend(txn) ==
    [legacy EXCEPT
        !.results = Append(@, txn),
        !.created = 0,
        !.last = "NULL",
        !.idx = IF legacy.idx < Len(legacy.rows) THEN @ + 1 ELSE @,
        !.pc = IF legacy.idx < Len(legacy.rows) THEN "attempt" ELSE "finish"]

\* main.py:155-174: the attempt calls the model, reads the stream, extracts
\* and validates the object and returns its Transaction.
AttemptReturns ==
    /\ legacy.pc = "attempt"
    /\ legacy' = LegacyAppend(LegacyTxn("model", legacy.created + 1, "c", "n"))
    /\ UNCHANGED exceptLegacy

\* main.py:175-178: the attempt raises; the exception is kept, and after the
\* sleep the loop goes on while attempts are left.
AttemptFails(e) ==
    /\ legacy.pc = "attempt"
    /\ legacy' = [legacy EXCEPT
                    !.created = @ + 1,
                    !.last = e,
                    !.pc = IF legacy.created + 1 < max_retries
                           THEN "attempt" ELSE "fallback"]
    /\ UNCHANGED exceptLegacy

\* main.py:180-189: the fallback record is built from the row outside any
\* try: float(row.get("Valor") ...) raises ValueError for a text that is no
\* number, and Transaction(date=<Timestamp>) fails validation of date: str.
LegacyFallback ==
    /\ legacy.pc = "fallback"
    /\ LET row == legacy.rows[legacy.idx]
       IN  legacy' =
             IF row.valor = "text"
             THEN [legacy EXCEPT !.pc = "handler", !.err = "ValueError"]
             ELSE IF row.data = "timestamp"
             THEN [legacy EXCEPT !.pc = "handler", !.err = "ValidationError"]
             ELSE LegacyAppend(LegacyTxn("fallback", legacy.created, "", legacy.last))
    /\ UNCHANGED exceptLegacy

\* main.py:222-229: the lists and the output are written and the job is
\* marked completed.
LegacyCompleted ==
    /\ legacy.pc = "finish"
    /\ legacy' = [legacy EXCEPT !.pc = "done", !.status = "completed"]
    /\ UNCHANGED exceptLegacy

\* main.py:230-235: the handler marks the job error.
LegacyHandler ==
    /\ legacy.pc = "handler"
    /\ legacy' = [legacy EXCEPT !.pc = "done", !.status = "error"]
    /\ UNCHANGED exceptLegacy

(***************************************************************************)
(* Specifications.                                                         *)
(***************************************************************************)
Uploads ==
    \E dataCol \in BOOLEAN, rows \in RowSeqs(MaxRows) :
       UploadCsv(dataCol, rows)

Http ==
    \/ UploadRejected
    \/ Uploads
    \/ \E j \in JobIds : GetStatus(j)
    \/ \E j \in JobIds : Download(j)

RunJob ==
    \/ \E j \in JobIds : MarkInProgress(j)
    \/ \E j \in JobIds : GetInput(j)
    \/ \E j \in JobIds : GetInputFails(j)
    \/ \E j \in JobIds : LoadSets(j)
    \/ \E j \in JobIds : LoadSetsFails(j)
    \/ \E j \in JobIds : \E i \in DOMAIN workers[j] : Collect(j, i)
    \/ \E j \in JobIds : \E i \in DOMAIN workers[j] : CollectRaises(j, i)
    \/ \E j \in JobIds : ShutdownDone(j)
    \/ \E j \in JobIds : PoolDone(j)
    \/ \E j \in JobIds : DumpCats(j)
    \/ \E j \in JobIds : DumpCatsFails(j)
    \/ \E j \in JobIds : DumpPays(j)
    \/ \E j \in JobIds : DumpPaysFails(j)
    \/ \E j \in JobIds : SaveOutput(j)
    \/ \E j \in JobIds : SaveOutputFails(j)
    \/ \E j \in JobIds : ExecCompleted(j)
    \/ \E j \in JobIds : Handler(j)
    \/ \E j \in JobIds : Commit(j)

ProcessRow ==
    \/ \E j \in JobIds : \E i \in DOMAIN workers[j] : StartRow(j, i)
    \/ \E j \in JobIds : \E i \in DOMAIN workers[j] :
          \E o \in TxnOutcomes : LlmReturns(j, i, o[1], o[2])
    \/ \E j \in JobIds : \E i \in DOMAIN workers[j] : LlmRaises(j, i)
    \/ \E j \in JobIds : \E i \in DOMAIN workers[j] : AddCheck(j, i)
    \/ \E j \in JobIds : \E i \in DOMAIN workers[j] : AddInsert(j, i)
    \/ \E j \in JobIds : \E i \in DOMAIN workers[j] : CatsCheck(j, i)
    \/ \E j \in JobIds : \E i \in DOMAIN workers[j] : CatsAppend(j, i)
    \/ \E j \in JobIds : \E i \in DOMAIN workers[j] : PaysCheck(j, i)
    \/ \E j \in JobIds : \E i \in DOMAIN workers[j] : PaysAppend(j, i)

JobsTableFails ==
    \/ \E j \in JobIds : MarkInProgressFails(j)
    \/ \E j \in JobIds : ExecCompletedFails(j)
    \/ \E j \in JobIds : HandlerFails(j)
    \/ \E j \in JobIds : CommitFails(j)

\* The service with a jobs table that accepts every statement.
Next == Http \/ RunJob \/ ProcessRow

Spec == Init /\ [][Next]_vars

\* Category Memory under direct calls.
NextMemory ==
    \/ \E p \in MemKeys, c \in MemCategories : MemRecord(p, c)
    \/ \E q \in MemQueries : MemLookup(q)

SpecMemory == Init /\ [][NextMemory]_vars

\* The service with a jobs table that may refuse a statement.
NextStoreFaults == Next \/ JobsTableFails

SpecStoreFaults == Init /\ [][NextStoreFaults]_vars

\* One input of more rows than the pool has threads; the model leaves
\* category and payee empty or fails.
NextPool ==
    \/ UploadBatch
    \/ RunJob
    \/ \E j \in JobIds : \E i \in DOMAIN workers[j] : StartRow(j, i)
    \/ \E j \in JobIds : \E i \in DOMAIN workers[j] : LlmReturns(j, i, EmptyStr, EmptyStr)
    \/ \E j \in JobIds : \E i \in DOMAIN workers[j] : LlmRaises(j, i)
    \/ \E j \in JobIds : \E i \in DOMAIN workers[j] : CatsCheck(j, i)
    \/ \E j \in JobIds : \E i \in DOMAIN workers[j] : PaysCheck(j, i)

SpecPool == Init /\ [][NextPool]_vars

\* The service with the exchanges kept, for inputs of at most one row.
NextHttp ==
    \/ \E name \in Filenames, dataCol \in BOOLEAN, rows \in RowSeqs(1) :
          UploadRequest(name, dataCol, rows)
    \/ \E j \in JobIds : StatusRequest(j)
    \/ \E j \in JobIds : DownloadRequest(j)
    \/ \E j \in JobIds : DownloadRequestMain(j)
    \/ HealthRequest
    \/ RunJob
    \/ ProcessRow

SpecHttp == Init /\ [][NextHttp]_vars

\* One call of _parse_transaction with any streamed text.
NextAgent ==
    \/ CreateCompletion
    \/ CreateFails
    \/ \E t \in Tokens : StreamChunk(t)
    \/ StreamFails
    \/ StreamEnds
    \/ Extract
    \/ Fallback

SpecAgent == Init /\ [][NextAgent]_vars

\* One call of _parse_transaction with texts of unusual field values.
NextFields ==
    \/ CreateCompletion
    \/ CreateFails
    \/ \E t \in FieldTokens : StreamChunk(t)
    \/ StreamFails
    \/ StreamEnds
    \/ Extract
    \/ Fallback

SpecFields == Init /\ [][NextFields]_vars

\* One call of _parse_transaction on a stream with chunks without content.
NextStream ==
    \/ CreateCompletion
    \/ CreateFails
    \/ \E t \in StreamTokens : StreamChunk(t)
    \/ StreamFails
    \/ StreamEnds
    \/ Extract
    \/ Fallback

SpecStream == Init /\ [][NextStream]_vars

\* One job of the historical variant.
NextLegacy ==
    \/ \E n \in 1..LegacyMaxRows : \E rows \in [1..n -> LegacyRows] : LegacyRunJob(rows)
    \/ AttemptReturns
    \/ \E e \in AttemptErrors : AttemptFails(e)
    \/ LegacyFallback
    \/ LegacyCompleted
    \/ LegacyHandler

SpecLegacy == Init /\ [][NextLegacy]_vars

(***************************************************************************)
(* Properties.                                                             *)
(***************************************************************************)
\* Messages of the exceptions a row's normalization raises.
RowErrors == {LlmError, IntegrityError}

RowFailed(j) == \E i \in DOMAIN workers[j] : workers[j][i].pc = "failed"

\* C1: once parse_transaction has raised for a row of a job, no output is
\* ever stored under the job's output key, the handler gets a row's
\* exception, and run_job ends with the job in status error, the exception's
\* message and a completion time recorded.
C1_RowFailureEndsInError ==
    \A j \in JobIds :
       /\ RowFailed(j) =>
             /\ ~outputBlob[j].exists
             /\ pc[j] \in {"pool", "shutdown", "handler", "commit"}
             /\ pc[j] \in {"handler", "commit"} => exc[j] \in RowErrors
       /\ exc[j] \in RowErrors =>
             /\ ~outputBlob[j].exists
             /\ pc[j] \in {"shutdown", "handler", "commit", "done"}
             /\ pc[j] = "commit" => session[j] = Update("error", TRUE, exc[j])
             /\ pc[j] = "done" => jobs[j] = JobRow("error", TRUE, exc[j])

\* C1 witness: a run over two rows has ended after a row raised.
C1_Witness ==
    \E j \in JobIds :
       /\ pc[j] = "done"
       /\ exc[j] \in RowErrors
       /\ Len(inputBlob[j].rows) = 2
       /\ jobs[j].status = "error"

\* C2: whatever the order in which the rows complete, a result is stored in
\* the slot of its input row, and the output table has one record per input
\* row, the record at position i being the normalization of row i.
C2_OutputInInputOrder ==
    \A j \in JobIds :
       /\ \A i \in DOMAIN results[j] :
             results[j][i] # NoTxn => results[j][i].src = i
       /\ outputBlob[j].exists =>
             /\ Len(outputBlob[j].rows) = Len(inputBlob[j].rows)
             /\ \A i \in 1..Len(outputBlob[j].rows) : outputBlob[j].rows[i].src = i

\* C2 witness: the output of a two-row input is stored, the rows differing.
C2_Witness ==
    \E j \in JobIds :
       /\ outputBlob[j].exists
       /\ Len(outputBlob[j].rows) = 2
       /\ outputBlob[j].rows[1].category # outputBlob[j].rows[2].category

\* The status changes the job record allows.
AllowedTransition(a, b) ==
    \/ a = b
    \/ <<a, b>> \in {<<"absent", "pending">>, <<"pending", "in_progress">>,
                     <<"in_progress", "completed">>, <<"in_progress", "error">>}

\* C3: in every step, whichever operation takes it, the status of every job
\* stays as it is or moves along pending -> in_progress -> completed or
\* pending -> in_progress -> error; a completed or error status never changes.
C3_StatusTransitions ==
    [][\A j \in JobIds : AllowedTransition(jobs[j].status, jobs'[j].status)]_vars

\* C3 witness: one job is completed while the run of another, uploaded job
\* is under way.
C3_Witness ==
    \E j, k \in JobIds :
       /\ j # k
       /\ jobs[j].status = "completed"
       /\ pc[j] = "done"
       /\ jobs[k].status = "in_progress"
       /\ pc[k] = "commit"

\* C4: run_job never lets an exception out, and a run in which a step failed
\* ends with the job in status error, the message and a completion time.
C4_RunJobNeverRaises ==
    \A j \in JobIds :
       /\ pc[j] # "raised"
       /\ (pc[j] = "done" /\ exc[j] # NoError) => jobs[j] = JobRow("error", TRUE, exc[j])

\* Categories, in any order, that the results introduce to a list.
NewValues(list, values) == {v \in values : v # EmptyStr /\ ~InList(v, list)}

\* list is before followed by each value of new exactly once.
GainsExactly(list, before, new) ==
    /\ Len(list) = Len(before) + Cardinality(new)
    /\ SubSeq(list, 1, Len(before)) = before
    /\ \A v \in new : \E k \in (Len(before) + 1)..Len(list) : list[k] = v

\* C5: when every row of a run has been normalized and collected, the list
\* of known categories is what the run loaded followed by each new category
\* exactly once, and so is the list of known payees.
C5_ListsGainExactlyNew ==
    \A j \in JobIds :
       pc[j] \in {"dump_cats", "dump_pays", "save_file", "mark_completed"} =>
          /\ GainsExactly(cats[j], loaded[j].cats,
                NewValues(loaded[j].cats, {results[j][i].category : i \in DOMAIN results[j]}))
          /\ GainsExactly(pays[j], loaded[j].pays,
                NewValues(loaded[j].pays, {results[j][i].payee : i \in DOMAIN results[j]}))

\* C6: in a job, at most one thread at a time is between the membership
\* test and the append on the list of categories, and likewise for payees.
C6_SingleMutator ==
    \A j \in JobIds :
       /\ Cardinality({i \in DOMAIN workers[j] : workers[j][i].pc = "cats_append"}) <= 1
       /\ Cardinality({i \in DOMAIN workers[j] : workers[j][i].pc = "pays_append"}) <= 1

\* C7: no call of add_category_to_db raises, however the calls of the
\* workers interleave, and a payee has at most one stored entry.
C7_ConcurrentRecordSafe ==
    /\ \A j \in JobIds : \A i \in DOMAIN workers[j] : workers[j][i].err # IntegrityError
    /\ \A j \in JobIds : exc[j] # IntegrityError
    /\ \A k, m \in 1..Len(catDb) : catDb[k].payee = catDb[m].payee => k = m

\* C8: a record call for a payee that is already stored leaves the table as
\* it is, so the category stored first stays.
C8_RecordFirstWriteWins ==
    [][(lastCall'.op = "record" /\ calls' # calls /\ PayeeExists(catDb, lastCall'.payee))
          => catDb' = catDb]_vars

\* C8 witness: record was called for a stored payee with another category
\* than the stored one.
C8_Witness ==
    /\ lastCall.op = "record"
    /\ lastCall.existed
    /\ \E k \in 1..Len(catDb) :
          catDb[k].payee = lastCall.payee /\ catDb[k].category # lastCall.category

\* C9: the table never holds two entries whose payee keys are equal after
\* case normalization.
C9_OneEntryPerPayeeKey ==
    \A k, m \in 1..Len(catDb) :
       Upper(catDb[k].payee) = Upper(catDb[m].payee) => k = m

\* C9 witness: two rows raced to record the same payee and the second
\* insert was refused.
C9_Witness ==
    /\ Len(catDb) >= 1
    /\ \E j \in JobIds : \E i \in DOMAIN workers[j] :
          /\ workers[j][i].err = IntegrityError
          /\ PayeeExists(catDb, HintOf(j, i))

\* s contains sub when case is ignored.
ContainsIgnoringCase(s, sub) == Contains(Upper(s), Upper(sub))

\* C10: lookup returns a category exactly when some stored key contains the
\* queried payee or is contained in it, case ignored.
C10_LookupBothDirections ==
    lastCall.op = "lookup" =>
       ((lastCall.result # NoCategory) <=>
           \E k \in 1..Len(catDb) :
              \/ ContainsIgnoringCase(catDb[k].payee, lastCall.payee)
              \/ ContainsIgnoringCase(lastCall.payee, catDb[k].payee))


\* C11: when record(p, c) was called on a memory that had no entry matching
\* p, a lookup of p that follows it, in any letter case, returns exactly c.
C11_RecordThenLookup ==
    [][(/\ lastCall.op = "record"
        /\ ~lastCall.existed
        /\ LookupMatches(SubSeq(catDb, 1, Len(catDb) - 1), lastCall.payee) = {}
        /\ lastCall'.op = "lookup"
        /\ Upper(lastCall'.payee) = Upper(lastCall.payee))
          => lastCall'.result = lastCall.category]_vars

\* C12: when a run has failed before the job is marked completed, and no
\* other run has started, categories.json and payees.json hold what the run
\* loaded from them.
C12_FailedRunKeepsStores ==
    \A j \in JobIds :
       (/\ pc[j] \in {"shutdown", "handler"}
        /\ \A k \in JobIds \ {j} : pc[k] \in {"none", "scheduled"})
          => (catsFile = loaded[j].cats /\ paysFile = loaded[j].pays)

\* C13: a started job does not stay in_progress: when run_job is over,
\* after which nothing writes the job's record, the status is terminal.
C13_StartedJobEndsTerminal ==
    \A j \in JobIds :
       pc[j] \in {"done", "raised"} => jobs[j].status # "in_progress"

\* C14: a completed job has a completion time and no error; a job in error
\* has a completion time and an error message; a pending or in_progress job
\* has neither.
C14_JobRecordShape ==
    \A j \in JobIds :
       /\ jobs[j].status = "completed" =>
             (jobs[j].completed_at /\ jobs[j].error = NoError)
       /\ jobs[j].status = "error" =>
             (jobs[j].completed_at /\ jobs[j].error # NoError)
       /\ jobs[j].status \in {"pending", "in_progress"} =>
             (~jobs[j].completed_at /\ jobs[j].error = NoError)

\* C14 witness: one job is completed, another is in error, both runs over.
C14_Witness ==
    \E j, k \in JobIds :
       /\ pc[j] = "done" /\ jobs[j].status = "completed" /\ jobs[j].completed_at
       /\ pc[k] = "done" /\ jobs[k].status = "error" /\ jobs[k].error # NoError


\* C15: in a job, at every moment at most 6 rows are being normalized, and
\* so at most 6 model requests are in flight, however many rows there are.
C15_AtMostSixInFlight ==
    \A j \in JobIds :
       /\ Cardinality({i \in DOMAIN workers[j] :
                          workers[j][i].pc \notin {"queued", "returned", "collected", "failed"}}) <= 6
       /\ Cardinality({i \in DOMAIN workers[j] : workers[j][i].pc = "llm"}) <= 6

\* C15 witness: six model requests of a job are in flight while a seventh
\* row waits in the pool's queue.
C15_Witness ==
    \E j \in JobIds :
       /\ Len(inputBlob[j].rows) > 6
       /\ Cardinality({i \in DOMAIN workers[j] : workers[j][i].pc = "llm"}) = 6
       /\ \E i \in DOMAIN workers[j] : workers[j][i].pc = "queued"


\* Messages of the model call's transport failures.
TransportErrors == {LlmError, StreamError}

\* C16: one call of _parse_transaction invokes the model at most once; when
\* creating the completion or reading the stream fails, the call raises
\* after that one invocation, with no record and no fallback.
C16_ModelInvokedOnce ==
    /\ agent.created <= 1
    /\ agent.err \in TransportErrors =>
          /\ agent.pc = "raised"
          /\ agent.created = 1
          /\ agent.txn = NoTransaction
          /\ ~agent.fallback

\* C16 witness: the stream broke and the call raised.
C16_Witness ==
    /\ agent.pc = "raised"
    /\ agent.err = StreamError
    /\ agent.created = 1

\* C17: leaving the model call with a record, parse_transaction goes on to
\* record(payeeHint, category) exactly when the lookup had found no entry
\* and the record's category is not empty.
C17_RecordAfterMissWithCategory ==
    [][\A j \in JobIds : \A i \in DOMAIN workers[j] :
          (/\ i \in DOMAIN workers'[j]
           /\ workers[j][i].pc = "llm"
           /\ workers'[j][i].pc \notin {"llm", "failed"})
             => ((workers'[j][i].pc = "add_check") <=>
                    (/\ workers[j][i].dbCat = NoCategory
                     /\ workers'[j][i].txn.category # EmptyStr))]_vars

\* C17 witness: record is being called for a row whose lookup missed on a
\* memory that holds an entry.
C17_Witness ==
    \E j \in JobIds : \E i \in DOMAIN workers[j] :
       /\ workers[j][i].pc = "add_check"
       /\ workers[j][i].txn.category # EmptyStr
       /\ Len(catDb) >= 1

\* The extractor has run on the text of the call.
Extractor_Ran ==
    /\ agent.pc \in {"fallback", "returned", "raised"}
    /\ agent.err \notin TransportErrors

\* The candidates that parse with no candidate before them parsing.
FirstParsing(cands) ==
    {k \in 1..Len(cands) : Parses(cands[k]) /\ \A m \in 1..(k - 1) : ~Parses(cands[m])}

HasAllKeys(data) == \A f \in Keys : data[f].t # "absent"

\* C18: for a text with exactly one JSON object, holding all five keys, the
\* extractor returns a record whose fields equal the object's values, a
\* null notes or category being the empty string.
C18_ExtractorKeepsJsonValues ==
    LET cands == Candidates(agent.raw, 1)
    IN  (/\ Extractor_Ran
         /\ Len(cands) = 1
         /\ Parses(cands[1])
         /\ HasAllKeys(Loads(cands[1])))
           => /\ agent.pc = "returned"
              /\ \A f \in {"date", "payee", "notes", "category"} :
                    agent.txn[f] = AsString(f, Loads(cands[1])[f])
              /\ agent.txn["amount"] = FloatOf(Loads(cands[1])["amount"]).value

\* C19: when the first candidate that parses lacks a required key, the call
\* raises for the missing field at that candidate: no later candidate is
\* tried, the CSV fallback does not run and no record is made.
C19_MissingKeyIsFatal ==
    LET cands == Candidates(agent.raw, 1)
    IN  \A k \in FirstParsing(cands) :
           (Extractor_Ran /\ ~HasAllKeys(Loads(cands[k])))
              => /\ agent.pc = "raised"
                 /\ agent.err = MissingFieldError
                 /\ agent.tried = k
                 /\ ~agent.fallback
                 /\ agent.txn = NoTransaction

\* C19 witness: the call raised on a first candidate without category while
\* a later candidate holds all five keys.
C19_Witness ==
    LET cands == Candidates(agent.raw, 1)
    IN  /\ agent.pc = "raised"
        /\ agent.err = MissingFieldError
        /\ agent.tried = 1
        /\ Len(cands) = 2
        /\ Parses(cands[2]) /\ HasAllKeys(Loads(cands[2]))

\* C20: the extractor uses the first candidate, in order of appearance,
\* that parses, skipping those before it; the CSV fallback runs exactly
\* when there is no candidate or none parses.
C20_FirstParsingCandidateOrFallback ==
    LET cands == Candidates(agent.raw, 1)
    IN  Extractor_Ran =>
           /\ \A k \in FirstParsing(cands) :
                 /\ agent.tried = k
                 /\ ~agent.fallback
                 /\ agent.pc \in {"returned", "raised"}
                 /\ agent.pc = "returned" <=> HasAllKeys(Loads(cands[k]))
           /\ FirstParsing(cands) = {} =>
                 (agent.pc = "fallback" \/ agent.fallback)

\* C20 witness: the first candidate did not parse and the record was made
\* of the second; no fallback ran.
C20_Witness ==
    LET cands == Candidates(agent.raw, 1)
    IN  /\ agent.pc = "returned"
        /\ ~agent.fallback
        /\ agent.tried = 2
        /\ ~Parses(cands[1])


\* C21 as claimed: when the CSV fallback has run, a record was returned
\* exactly if the last non-empty line of the text has five fields, and the
\* call raised in every other case.
C21_FallbackReturnsOnFiveFields ==
    agent.fallback =>
       /\ agent.pc \in {"returned", "raised"}
       /\ agent.pc = "returned" <=> Len(LineFields(LastLine(agent.raw))) = 5

\* C21 as amended: when the CSV fallback has run, a record was returned
\* exactly if the last non-empty line has five fields of which the fifth
\* converts to a float; the record holds the fields in the order date,
\* payee, notes, category, amount; in every other case the call raised.
C21_FallbackReturnsOnFiveFieldsWithAmount ==
    LET fields == LineFields(LastLine(agent.raw))
    IN  agent.fallback =>
           /\ agent.pc \in {"returned", "raised"}
           /\ agent.pc = "returned" <=> (Len(fields) = 5 /\ ParseFloat(fields[5]).ok)
           /\ agent.pc = "returned" =>
                 agent.txn = Transaction(fields[1], fields[2], fields[3], fields[4],
                                         ParseFloat(fields[5]).value)
           /\ agent.pc = "raised" =>
                 /\ agent.err \in {NoLinesError, FieldCountError, FloatError}
                 /\ agent.txn = NoTransaction

\* C21 witness: a candidate was there, it did not parse, and the record was
\* made of the last line.
C21_Witness ==
    /\ agent.fallback
    /\ agent.pc = "returned"
    /\ Len(Candidates(agent.raw, 1)) >= 1
    /\ \E k \in 1..Len(agent.raw) : agent.raw[k].kind = "nl"


\* C22: a record is returned only with a finite amount, on the JSON path
\* and on the CSV fallback path alike.
C22_ReturnedAmountIsFinite ==
    agent.pc = "returned" => agent.txn.amount.kind = "finite"

\* C23: every record the call returns has a non-empty payee, whichever path
\* made it.
C23_ReturnedPayeeNonEmpty ==
    agent.pc = "returned" => agent.txn.payee # EmptyStr

\* C24: a record made of a JSON candidate holds the date string of that
\* candidate as it was emitted.
C24_DateStoredAsEmitted ==
    LET cands == Candidates(agent.raw, 1)
    IN  (agent.pc = "returned" /\ ~agent.fallback) =>
           agent.txn.date = Loads(cands[agent.tried])["date"].s


\* C25: a job uploaded as a one-row CSV whose header is date, payee, notes,
\* category, amount (no column Data) is never seen in status error, and
\* once it is seen completed the download answers with its one row.
C25_LifecycleTestCompletes ==
    \A j \in JobIds :
       (/\ inputBlob[j].exists
        /\ ~inputBlob[j].dataCol
        /\ Len(inputBlob[j].rows) = 1
        /\ inputBlob[j].rows[1].hasPayee)
          => /\ StatusResponse(j).status # "error"
             /\ StatusResponse(j).status = "completed" =>
                   (DownloadResponse(j).code = 200 /\ Len(DownloadResponse(j).rows) = 1)


C27_UnknownJobOrMissingOutputNotFound ==
    [][(http' # http /\ http'.req \in {"status", "download"}) =>
         /\ UNCHANGED exceptHttp
         /\ jobs[http'.id] = NoJob => http'.code = 404
         /\ (http'.req = "download" /\ ~outputBlob[http'.id].exists) => http'.code = 404
         /\ (http'.req = "status" /\ jobs[http'.id] # NoJob) =>
               (http'.code = 200 /\ http'.status = jobs[http'.id].status)]_vars

\* C28: a health request is answered 200 with status ok in every state and
\* changes nothing.
C28_HealthConstant ==
    [][(http' # http /\ http'.req = "health") =>
         /\ http'.code = 200
         /\ http'.status = "ok"
         /\ UNCHANGED exceptHttp]_vars

\* C28 witness: the health request was answered while one job is in error
\* and another in progress.
C28_Witness ==
    /\ http.req = "health"
    /\ http.code = 200
    /\ \E j, k \in JobIds : jobs[j].status = "error" /\ jobs[k].status = "in_progress"


\* C29: once the normalization of a row of a batch has raised, no row of
\* that batch that has not started is started afterwards.
C29_NoRowStartsAfterFailure ==
    [][\A j \in JobIds : \A i \in DOMAIN workers[j] :
          (RowFailed(j) /\ workers[j][i].pc = "queued" /\ i \in DOMAIN workers'[j])
             => workers'[j][i].pc = "queued"]_vars

\* C30: the known-categories store is written, then the known-payees
\* store, then the output table, and only then the job is marked
\* completed; a completed job has its output stored, one record per input
\* row.
C30_OutputBeforeCompleted ==
    /\ [](\A j \in JobIds :
            (jobs[j].status = "completed" \/ session[j].status = "completed") =>
               /\ outputBlob[j].exists
               /\ Len(outputBlob[j].rows) = Len(inputBlob[j].rows))
    /\ [][\A j \in JobIds :
            /\ (pc[j] = "dump_cats" /\ pc'[j] = "dump_pays") => catsFile' = cats[j]
            /\ (pc[j] = "dump_pays" /\ pc'[j] # "dump_pays") =>
                  \/ pc'[j] = "save_file" /\ paysFile' = pays[j]
                  \/ pc'[j] = "handler"
            /\ (~outputBlob[j].exists /\ outputBlob'[j].exists) =>
                  /\ pc[j] = "save_file"
                  /\ jobs[j].status # "completed"
                  /\ session[j].status # "completed"
            /\ (session[j].status # "completed" /\ session'[j].status = "completed") =>
                  outputBlob[j].exists]_vars

\* C30 witness: a job of two rows is completed and its output holds two
\* records.
C30_Witness ==
    \E j \in JobIds :
       /\ jobs[j].status = "completed"
       /\ outputBlob[j].exists
       /\ Len(inputBlob[j].rows) = 2
       /\ Len(outputBlob[j].rows) = 2


\* The text of the chunks in arrival order, a chunk without content
\* counting as empty.
RECURSIVE Concat(_)
Concat(chunks) ==
    IF chunks = << >> THEN << >>
    ELSE (IF Head(chunks).kind = "none" THEN << >> ELSE <<Head(chunks)>>)
         \o Concat(Tail(chunks))

\* C31: the stream is read once and to its end before the extractor
\* starts: the extractor gets the concatenation of all chunks in arrival
\* order, a chunk without content counting as empty, no chunk arrives once
\* the reading has ended, and after a stream failure the extractor and the
\* fallback never run.
C31_StreamReadOnceBeforeExtraction ==
    /\ [](/\ agent.created <= 1
          /\ agent.pc \in {"extract", "fallback", "returned"} =>
                agent.raw = Concat(agent.chunks)
          /\ agent.err = StreamError =>
                (agent.pc = "raised" /\ agent.tried = 0 /\ ~agent.fallback))
    /\ [][/\ agent.pc # "streaming" => agent'.chunks = agent.chunks
          /\ (agent.pc = "streaming" /\ agent'.pc = "streaming") =>
                (Len(agent'.chunks) = Len(agent.chunks) + 1
                 /\ SubSeq(agent'.chunks, 1, Len(agent.chunks)) = agent.chunks)
          /\ (agent.pc = "extract" /\ agent'.pc # "extract") =>
                LET r == extract_and_normalize_json(Concat(agent.chunks))
                IN  agent'.tried = r.tried /\ agent'.txn = r.data /\ agent'.err = r.err
          /\ agent.err = StreamError => agent' = agent]_vars

\* C31 witness: a stream with a chunk without content between chunks of
\* text was read to its end and the extractor returned its record.
C31_Witness ==
    /\ agent.pc = "returned"
    /\ agent.tried >= 1
    /\ Len(agent.raw) < Len(agent.chunks)
    /\ \E k \in 2..(Len(agent.chunks) - 1) : agent.chunks[k].kind = "none"


\* C32: in the historical variant ai_parse_row calls the model at most
\* max_retries times for a row, returns the record of the first attempt
\* that succeeds, and when every attempt fails returns a fallback record
\* with an empty category and the error in its notes in place of raising:
\* no row failure ends the job in error.
C32_LegacyRetriesThenFallback ==
    /\ legacy.created <= max_retries
    /\ \A k \in 1..Len(legacy.results) :
          LET txn == legacy.results[k]
          IN  /\ txn.calls <= max_retries
              /\ txn.kind = "fallback" =>
                    (txn.calls = max_retries /\ txn.category = ""
                     /\ txn.notes \in AttemptErrors)
    /\ legacy.pc # "handler"
    /\ legacy.status # "error"


\* The rows of a job that are queued or at work on a pool thread.
Unfinished(j) ==
    {i \in DOMAIN workers[j] : workers[j][i].pc \notin {"returned", "collected", "failed"}}

\* C33: the terminal status of a job, completed or error, is written only
\* after every pool thread of the job has finished: no row is queued, being
\* normalized or waiting for the model when the update is executed, while
\* it waits for its commit, or when it is committed.
C33_TerminalStatusAfterWorkers ==
    /\ [](\A j \in JobIds :
            (session[j].status \in {"completed", "error"} \/ pc[j] = "commit"
             \/ jobs[j].status \in {"completed", "error"}) => Unfinished(j) = {})
    /\ [][\A j \in JobIds :
            (session'[j] # session[j] \/ jobs'[j].status # jobs[j].status) =>
               (jobs'[j].status = "pending" \/ jobs'[j].status = "in_progress"
                \/ Unfinished(j) = {})]_vars

\* C33 witness: a job of PoolRows rows has its update to error executed
\* after a row failed, and rows that started after the failure have
\* returned.
C33_Witness ==
    \E j \in JobIds :
       /\ pc[j] = "commit"
       /\ session[j].status = "error"
       /\ Len(workers[j]) = PoolRows
       /\ \E i \in DOMAIN workers[j] : workers[j][i].pc = "failed"
       /\ \E i \in DOMAIN workers[j] : workers[j][i].pc = "returned"


\* C34: Category Memory changes only by the record call of a row whose
\* model call and extraction have returned a record with a category, and
\* by that row's payee and category; the step in which a row's
\* normalization fails leaves Category Memory as it is, and a failed row
\* takes no further step.
C34_FailedRowLeavesMemory ==
    [][/\ catDb' # catDb =>
            \E j \in JobIds : \E i \in DOMAIN workers[j] :
               /\ workers[j][i].pc = "add_insert"
               /\ workers[j][i].txn.src = i
               /\ workers[j][i].txn.category # EmptyStr
               /\ workers'[j][i].pc = "cats_check"
               /\ catDb' = Append(catDb, Category(HintOf(j, i), workers[j][i].txn.category))
       /\ \A j \in JobIds : \A i \in DOMAIN workers[j] :
            /\ (workers[j][i].pc = "llm" /\ i \in DOMAIN workers'[j]
                 /\ workers'[j][i].pc = "failed") => catDb' = catDb
            /\ (workers[j][i].pc = "failed" /\ i \in DOMAIN workers'[j]) =>
                  workers'[j][i] = workers[j][i]]_vars

\* C34 witness: a row with a payee failed on the model call, its payee
\* has no entry, and Category Memory holds the entry of another row.
C34_Witness ==
    \E j \in JobIds : \E i \in DOMAIN workers[j] :
       /\ workers[j][i].pc = "failed"
       /\ workers[j][i].err = LlmError
       /\ HintOf(j, i) # EmptyStr
       /\ ~PayeeExists(catDb, HintOf(j, i))
       /\ catDb # << >>


\* C35: when every job has completed, the stored known-categories and
\* known-payees lists hold every category and payee of every job's output,
\* also when the jobs ran at the same time.
C35_ConcurrentJobsKeepValues ==
    (\A j \in JobIds : jobs[j].status = "completed") =>
       \A j \in JobIds : \A k \in 1..Len(outputBlob[j].rows) :
          LET txn == outputBlob[j].rows[k]
          IN  /\ txn.category # EmptyStr => InList(txn.category, catsFile)
              /\ txn.payee # EmptyStr => InList(txn.payee, paysFile)


\* C36: for a row that has no payee field the lookup in Category Memory
\* finds nothing, whatever the memory holds: the row goes to the model
\* without a category taken from another payee's entry.
C36_NoPayeeNoLookupHit ==
    \A j \in JobIds : \A i \in DOMAIN workers[j] :
       (workers[j][i].pc = "llm" /\ ~inputBlob[j].rows[i].hasPayee) =>
          ~Found(workers[j][i].dbCat)

\* C37: no entry of Category Memory has an empty payee or an empty
\* category.
C37_NoEmptyKeyOrCategory ==
    \A k \in 1..Len(catDb) :
       catDb[k].payee # EmptyStr /\ catDb[k].category # EmptyStr


\* C38: a download is answered with the output only for a job whose status
\* is completed, never while the job is pending, in progress or in error.
C38_DownloadOnlyWhenCompleted ==
    \A j \in JobIds :
       DownloadResponse(j).code = 200 => jobs[j].status = "completed"


\* C39: every record the agent returns, by the JSON path or by the CSV
\* fallback, has date, payee, notes and category made of the characters
\* A-Z, 0-9 and space only, and sanitizing them again changes nothing.
C39_ReturnedFieldsSanitized ==
    agent.pc = "returned" =>
       \A f \in {"date", "payee", "notes", "category"} :
          /\ \A k \in 1..Len(agent.txn[f]) : IsKept(agent.txn[f][k])
          /\ Sanitize(agent.txn[f]) = agent.txn[f]

=============================================================================
